---- MODULE Spec2Model ----
(***************************************************************************)
(* The live audio session hook useGeminiLive (src/unnamed/part_001, lines  *)
(* 341-568) as a state machine.  The browser runs the hook's callbacks on  *)
(* one event loop: every action below is one callback (or one stretch of   *)
(* an async function between two awaits) run to completion.                *)
(*                                                                         *)
(* Objects created by a connect call (audio contexts, microphone stream,   *)
(* recorder, script processor, remote session and its promise) are named   *)
(* by the number of the connect call that created them; 0 is null.         *)
(* Strings are sequences of characters.                                    *)
(***************************************************************************)
EXTENDS Integers, Sequences, FiniteSets

VARIABLES hook, refs, dev, obs, app, timer

vars == <<hook, refs, dev, obs, app, timer>>

\* ------------------------------------------------------------------ bounds

\* connect calls in one behaviour
MaxConn == 2

Attempts == 1..MaxConn

\* audio buffer sources created in one behaviour
MaxAudio == 2

SrcIds == 1..MaxAudio

\* the output context's clock runs from 0 to MaxClock
MaxClock == 2

\* longest utterance accumulated, in characters
MaxText == 2

\* chat messages finalized in one behaviour
MaxMsgs == 2

\* longest remote error message, in symbols
MaxErrLen == 4

\* the longest countdown, in seconds
MaxDur == 2

\* ------------------------------------------------------------------ strings

\* the value null of `error`
NULL == <<"<null>">>

BILLING_REQUIRED == <<"BILLING_REQUIRED">>

NetworkFailed == <<"Network connection failed.">>

InitFailed == <<"Failed to initialize audio stream.">>

\* the phrase onerror looks for, as one symbol of the message alphabet
NotFoundSig == <<"Requested entity was not found">>

Sig404 == <<"4", "0", "4">>

\* String.prototype.includes: pat occurs in s as a contiguous run
Includes(s, pat) ==
  \E i \in 1..(Len(s) - Len(pat) + 1) : SubSeq(s, i, i + Len(pat) - 1) = pat

Min(a, b) == IF a <= b THEN a ELSE b

Max(a, b) == IF a >= b THEN a ELSE b

\* ------------------------------------------------------------------ state

\* the world as one value, so that the steps of a callback compose
Cur ==
  [hook |-> hook, refs |-> refs, dev |-> dev, obs |-> obs, app |-> app,
   timer |-> timer]

Commit(w) ==
  /\ hook' = w.hook
  /\ refs' = w.refs
  /\ dev' = w.dev
  /\ obs' = w.obs
  /\ app' = w.app
  /\ timer' = w.timer

\* useState initial values
HookInit ==
  [connectionState |-> "DISCONNECTED",
   volume |-> 0,
   isModelSpeaking |-> FALSE,
   error |-> NULL,
   messages |-> <<>>,
   isMuted |-> FALSE,
   fluencyFeedback |-> "neutral",
   userTranscript |-> <<>>]

\* useRef initial values
RefsInit ==
  [inputAudioContextRef |-> 0,
   outputAudioContextRef |-> 0,
   mediaStreamRef |-> 0,
   scriptProcessorRef |-> 0,
   mediaRecorderRef |-> 0,
   audioChunksRef |-> <<>>,
   activeSourcesRef |-> {},
   nextStartTimeRef |-> 0,
   sessionPromiseRef |-> 0,
   currentInputRef |-> <<>>,
   currentOutputRef |-> <<>>]

\* the browser and the remote service: nothing exists yet
DevInit ==
  [nConn |-> 0,
   pc |-> [k \in Attempts |-> "none"],
   inCtx |-> [k \in Attempts |-> "none"],
   outCtx |-> [k \in Attempts |-> "none"],
   track |-> [k \in Attempts |-> "none"],
   rec |-> [k \in Attempts |-> "none"],
   recData |-> [k \in Attempts |-> FALSE],
   recEvt |-> [k \in Attempts |-> FALSE],
   proc |-> [k \in Attempts |-> "none"],
   muted |-> [k \in Attempts |-> FALSE],
   instr |-> [k \in Attempts |-> NULL],
   queued |-> [k \in Attempts |-> FALSE],
   greetWait |-> [k \in Attempts |-> 0],
   greetLate |-> [k \in Attempts |-> FALSE],
   greeted |-> [k \in Attempts |-> 0],
   promise |-> [k \in Attempts |-> "none"],
   ws |-> [k \in Attempts |-> "none"],
   discWait |-> 0,
   clock |-> 0,
   src |-> [i \in SrcIds |-> "none"],
   decoding |-> <<>>,
   pendingMsgs |-> <<>>]

\* what connect sees of the hook when it first reaches for a resource, and
\* what it had found when it was called
Snap(w, before) ==
  [state |-> w.hook.connectionState,
   error |-> w.hook.error,
   messages |-> w.hook.messages,
   queued |-> w.dev.pendingMsgs,
   input |-> w.refs.currentInputRef,
   output |-> w.refs.currentOutputRef,
   transcript |-> w.hook.userTranscript,
   hadError |-> before.hook.error # NULL,
   hadMessages |-> before.hook.messages # <<>>,
   hadInput |-> before.refs.currentInputRef # <<>>]

NoSnap ==
  [state |-> "none", error |-> NULL, messages |-> <<>>, queued |-> <<>>,
   input |-> <<>>, output |-> <<>>, transcript |-> <<>>,
   hadError |-> FALSE, hadMessages |-> FALSE, hadInput |-> FALSE]

\* what the properties observe about the run
ObsInit ==
  [last |-> "init",
   who |-> 0,
   td |-> 0,
   dup |-> FALSE,
   exited |-> {},
   discDone |-> FALSE,
   discResult |-> "none",
   captured |-> FALSE,
   remoteMsg |-> <<>>,
   started |-> FALSE,
   past |-> FALSE,
   overlap |-> FALSE,
   decreasing |-> FALSE,
   prevStart |-> 0,
   prevEnd |-> 0,
   tcUser |-> <<>>,
   tcModel |-> <<>>,
   tcBefore |-> 0,
   fwd |-> "none",
   from |-> "none",
   decode |-> "none",
   acq |-> NoSnap,
   at |-> "none",
   failedTurn |-> FALSE,
   overtaken |-> FALSE,
   composed |-> [k \in Attempts |-> NULL]]

\* the examiner prompt, and the instruction handleStartTest composes from it
EXAMINER == <<"EXAMINER">>

Topics == {"hometown", "work"}

Cards == {"a book", "a journey"}

Compose(topics, card) == EXAMINER \o <<"TOPICS: ", topics, "CUE CARD: ", card>>

\* the application's useState values, the systemInstruction the hook was
\* last rendered with, and where handleFinishTest is suspended
AppInit ==
  [currentPart |-> "IDLE",
   sessionInstructions |-> EXAMINER,
   systemInstruction |-> EXAMINER,
   isEvaluating |-> FALSE,
   finish |-> "none"]

\* the callbacks the Timer may be given as onComplete
Callbacks == {1, 2}

\* the Timer component before it is mounted: its props, the state and the
\* ref of useTimer, whether the interval exists, the effects whose
\* dependencies changed in the last render and have not run yet, and what
\* has happened since timeLeft was last set to durationSeconds
TimerInit ==
  [mounted |-> FALSE,
   durationSeconds |-> 0,
   isActive |-> FALSE,
   onComplete |-> 1,
   timeLeft |-> 0,
   onCompleteRef |-> 1,
   interval |-> FALSE,
   effects |-> {},
   ticks |-> 0,
   calls |-> 0,
   calledLatest |-> TRUE,
   steady |-> FALSE,
   changed |-> "none"]

Init ==
  /\ hook = HookInit
  /\ refs = RefsInit
  /\ dev = DevInit
  /\ obs = ObsInit
  /\ app = AppInit
  /\ timer = TimerInit

TeardownOps == {"onclose", "onerror", "catch", "disconnect"}

\* record which callback ran last, and how many teardowns ran in a row
Observe(w, op) ==
  [w EXCEPT !.obs.last = op,
            !.obs.tcUser = IF op = "turnComplete" THEN @ ELSE <<>>,
            !.obs.tcModel = IF op = "turnComplete" THEN @ ELSE <<>>,
            !.obs.tcBefore = IF op = "turnComplete" THEN @ ELSE 0,
            !.obs.who = 0,
            !.obs.fwd = "none",
            !.obs.overtaken = FALSE,
            !.obs.from = "none",
            !.obs.decode = "none",
            !.obs.acq = NoSnap,
            !.obs.at = "none",
            !.obs.td = IF op \in TeardownOps THEN Min(w.obs.td + 1, 2) ELSE 0]

\* ------------------------------------------------- stopAudioProcessing

\* mediaRecorderRef.current.stop(), if the recorder is not inactive; the
\* browser then queues the recorder's dataavailable event
StopRecorder(w) ==
  LET mr == w.refs.mediaRecorderRef IN
  IF mr # 0 /\ w.dev.rec[mr] # "inactive"
  THEN [w EXCEPT !.dev.rec[mr] = "inactive", !.dev.recEvt[mr] = TRUE]
  ELSE w

\* track.stop() on every track of mediaStreamRef.current; the ref is nulled
StopTracks(w) ==
  LET ms == w.refs.mediaStreamRef IN
  IF ms # 0
  THEN [w EXCEPT !.dev.track[ms] = "stopped",
                 !.obs.dup = @ \/ w.dev.track[ms] = "stopped",
                 !.refs.mediaStreamRef = 0]
  ELSE w

\* scriptProcessorRef.current.disconnect(); the ref is nulled
DisconnectProcessor(w) ==
  LET sp == w.refs.scriptProcessorRef IN
  IF sp # 0
  THEN [w EXCEPT !.dev.proc[sp] = "disconnected",
                 !.obs.dup = @ \/ w.dev.proc[sp] = "disconnected",
                 !.refs.scriptProcessorRef = 0]
  ELSE w

\* inputAudioContextRef.current.close(); the ref is nulled
CloseInputContext(w) ==
  LET c == w.refs.inputAudioContextRef IN
  IF c # 0
  THEN [w EXCEPT !.dev.inCtx[c] = "closed",
                 !.obs.dup = @ \/ w.dev.inCtx[c] = "closed",
                 !.refs.inputAudioContextRef = 0]
  ELSE w

\* outputAudioContextRef.current.close(); the ref is nulled
CloseOutputContext(w) ==
  LET c == w.refs.outputAudioContextRef IN
  IF c # 0
  THEN [w EXCEPT !.dev.outCtx[c] = "closed",
                 !.obs.dup = @ \/ w.dev.outCtx[c] = "closed",
                 !.dev.clock = 0,
                 !.refs.outputAudioContextRef = 0]
  ELSE w

\* source.stop() on every source of the active set, then clear() the set
\* and reset the cursor
StopSources(w) ==
  [w EXCEPT !.dev.src = [i \in SrcIds |->
                           IF i \in w.refs.activeSourcesRef THEN "stopped" ELSE @[i]],
            !.obs.dup = @ \/ \E i \in w.refs.activeSourcesRef : w.dev.src[i] = "stopped",
            !.refs.activeSourcesRef = {},
            !.refs.nextStartTimeRef = 0]

\* the four trailing state setters
ResetIndicators(w) ==
  [w EXCEPT !.hook.isModelSpeaking = FALSE,
            !.hook.volume = 0,
            !.hook.fluencyFeedback = "neutral",
            !.hook.userTranscript = <<>>]

stopAudioProcessing(w) ==
  ResetIndicators(StopSources(CloseOutputContext(CloseInputContext(
    DisconnectProcessor(StopTracks(StopRecorder(w)))))))

\* ------------------------------------------------------------ connect

\* the message of the TypeError thrown by a call on a null ref
TypeErrorMsg == <<"TypeError">>

\* messages of the exceptions the browser and the SDK throw into connect
ExcMsgs == {<<>>, <<"x">>}

\* ConnectCatch without setError
ConnectCatchNoError(w, k, m) ==
  LET w1 == [w EXCEPT !.hook.connectionState = "ERROR"]
      w2 == stopAudioProcessing(w1)
  IN  [Observe([w2 EXCEPT !.dev.pc[k] = "failed", !.obs.exited = @ \cup {k}], "catch")
         EXCEPT !.obs.who = k, !.obs.at = w.dev.pc[k]]

\* the catch block of connect, entered with an exception of message m
ConnectCatch(w, k, m) ==
  LET w1 == [w EXCEPT !.hook.error = IF m # <<>> THEN m ELSE InitFailed,
                      !.hook.connectionState = "ERROR"]
      w2 == stopAudioProcessing(w1)
  IN  [Observe([w2 EXCEPT !.dev.pc[k] = "failed", !.obs.exited = @ \cup {k}], "catch")
         EXCEPT !.obs.who = k, !.obs.at = w.dev.pc[k]]

\* ConnectReset without setMessages([])
ConnectResetKeepsMessages(w, k) ==
  [w EXCEPT !.dev.nConn = k,
            !.dev.muted[k] = w.hook.isMuted,
            !.dev.instr[k] = w.app.systemInstruction,
            !.hook.connectionState = "CONNECTING",
            !.hook.error = NULL,
            !.refs.currentInputRef = <<>>,
            !.refs.currentOutputRef = <<>>,
            !.hook.userTranscript = <<>>,
            !.refs.audioChunksRef = <<>>,
            !.obs.discDone = FALSE,
            !.obs.discResult = "none",
            !.obs.captured = FALSE,
            !.obs.started = FALSE,
            !.obs.prevStart = 0,
            !.obs.prevEnd = 0]

\* the first statements of connect: the state setters and ref resets that
\* precede the first `new AudioContextClass()`; the call gets the isMuted
\* of the render that made it
ConnectReset(w, k) ==
  [w EXCEPT !.dev.nConn = k,
            !.dev.muted[k] = w.hook.isMuted,
            !.dev.instr[k] = w.app.systemInstruction,
            !.hook.connectionState = "CONNECTING",
            !.hook.error = NULL,
            !.hook.messages = <<>>,
            !.dev.pendingMsgs = <<>>,
            !.refs.currentInputRef = <<>>,
            !.refs.currentOutputRef = <<>>,
            !.hook.userTranscript = <<>>,
            !.refs.audioChunksRef = <<>>,
            !.obs.discDone = FALSE,
            !.obs.discResult = "none",
            !.obs.captured = FALSE,
            !.obs.started = FALSE,
            !.obs.prevStart = 0,
            !.obs.prevEnd = 0]

\* connect, from its call to the first await (inputAudioContext.resume()).
\* ctor says which `new AudioContextClass()` throws, if any.
ConnectStart(w, k, ctor, m) ==
  LET w0 == ConnectReset(w, k)
      w1 == [w0 EXCEPT !.dev.inCtx[k] = "open", !.refs.inputAudioContextRef = k]
      w2 == [w1 EXCEPT !.dev.outCtx[k] = "open", !.refs.outputAudioContextRef = k,
                       !.dev.clock = 0]
      r == CASE ctor = "throwIn" -> ConnectCatch(w0, k, m)
             [] ctor = "throwOut" -> ConnectCatch(w1, k, m)
             [] OTHER -> Observe([w2 EXCEPT !.dev.pc[k] = "resumeIn"], "connect")
  IN  [r EXCEPT !.obs.acq = Snap(w0, w)]

\* connect resumed after `await inputAudioContextRef.current.resume()`
ConnectAfterResumeIn(w, k, ok, m) ==
  IF ~ok THEN ConnectCatch(w, k, m)
  ELSE IF w.refs.outputAudioContextRef = 0 THEN ConnectCatch(w, k, TypeErrorMsg)
  ELSE Observe([w EXCEPT !.dev.pc[k] = "resumeOut"], "resumed")

\* connect resumed after `await outputAudioContextRef.current.resume()`
ConnectAfterResumeOut(w, k, ok, m) ==
  IF ~ok THEN ConnectCatch(w, k, m)
  ELSE Observe([w EXCEPT !.dev.pc[k] = "gum"], "resumed")

\* connect resumed after `await getUserMedia(...)`, to its end.  out says
\* what fails: the permission, the MediaRecorder, the SDK, or nothing.
ConnectAfterGetUserMedia(w, k, out, m) ==
  LET w1 == [w EXCEPT !.dev.track[k] = "live", !.refs.mediaStreamRef = k]
      w2 == [w1 EXCEPT !.dev.rec[k] = "recording", !.refs.mediaRecorderRef = k]
      w3 == [w2 EXCEPT !.dev.proc[k] = "attached", !.refs.scriptProcessorRef = k]
      w4 == [w3 EXCEPT !.dev.promise[k] = "pending",
                       !.dev.ws[k] = "connecting",
                       !.refs.sessionPromiseRef = k,
                       !.dev.pc[k] = "done"]
  IN  CASE out = "denied" -> ConnectCatch(w, k, m)
        [] out = "recorderThrows" -> ConnectCatch(w1, k, m)
        [] w2.refs.inputAudioContextRef = 0 -> ConnectCatch(w2, k, TypeErrorMsg)
        [] out = "sdkThrows" -> ConnectCatch(w3, k, m)
        [] OTHER -> Observe(w4, "connected")

\* ------------------------------------------------------------ disconnect

\* disconnect after `await sessionPromiseRef.current` (p is the promise
\* awaited, 0 when the ref was null): close the session, tear down, return
DisconnectFinish(w, p) ==
  LET w1 == IF p # 0 /\ w.dev.promise[p] = "resolved" /\ w.dev.ws[p] = "open"
            THEN [w EXCEPT !.dev.ws[p] = "closing"] ELSE w
      w2 == IF p # 0 THEN [w1 EXCEPT !.refs.sessionPromiseRef = 0] ELSE w1
      w3 == stopAudioProcessing(w2)
      w4 == [w3 EXCEPT !.hook.connectionState = "DISCONNECTED",
                       !.dev.discWait = 0,
                       !.obs.discDone = TRUE,
                       !.obs.discResult =
                          IF Len(w3.refs.audioChunksRef) > 0 THEN "blob" ELSE "null",
                       !.obs.exited = @ \cup (1..w.dev.nConn)]
  IN  Observe(w4, "disconnect")

\* disconnect, from its call: it runs through when the awaited promise is
\* settled or the ref is null, and is suspended while the promise is pending
DisconnectStart(w) ==
  LET p == w.refs.sessionPromiseRef IN
  IF p # 0 /\ w.dev.promise[p] = "pending"
  THEN Observe([w EXCEPT !.dev.discWait = p], "disconnectCall")
  ELSE DisconnectFinish(w, p)

\* the rest of onopen of session k after `await sessionPromiseRef.current`,
\* p being the promise it awaited: session.send(greeting).  On a rejected
\* promise the await throws, on a session no longer open the send fails.
Greet(w, k, p) ==
  [w EXCEPT !.dev.greetWait[k] = 0,
            !.dev.greetLate[k] = FALSE,
            !.dev.greeted[p] =
               IF w.dev.promise[p] = "resolved" /\ w.dev.ws[p] = "open"
               THEN Min(@ + 1, 2) ELSE @]

RECURSIVE GreetAll(_, _, _)
GreetAll(w, ks, p) ==
  IF ks = {} THEN w
  ELSE LET k == CHOOSE x \in ks : TRUE
       IN  GreetAll(Greet(w, k, p), ks \ {k}, p)

\* the continuations waiting on promise p run when it settles, in the order
\* they began to wait: the frames queued by onaudioprocess, the onopen
\* handlers that waited before disconnect did, disconnect, the other onopen
\* handlers
RunWaiters(w, p) ==
  LET early == {k \in Attempts : w.dev.greetWait[k] = p /\ ~w.dev.greetLate[k]}
      late == {k \in Attempts : w.dev.greetWait[k] = p /\ w.dev.greetLate[k]}
      flushed == /\ w.dev.queued[p]
                 /\ w.dev.promise[p] = "resolved"
                 /\ w.dev.ws[p] = "open"
      w1 == GreetAll([w EXCEPT !.dev.queued[p] = FALSE], early, p)
      w2 == IF w1.dev.discWait = p THEN DisconnectFinish(w1, p) ELSE w1
      w3 == GreetAll(w2, late, p)
  IN  IF flushed THEN [w3 EXCEPT !.obs.fwd = "flushed"] ELSE w3

\* -------------------------------------------------- remote session events

\* ClassifyError comparing the message with "404" instead of searching it
ClassifyErrorExact404(msg) ==
  IF Includes(msg, NotFoundSig) \/ msg = Sig404
  THEN BILLING_REQUIRED
  ELSE IF msg # <<>> THEN msg ELSE NetworkFailed

\* the user-facing error onerror derives from err.message
ClassifyError(msg) ==
  IF Includes(msg, NotFoundSig) \/ Includes(msg, Sig404)
  THEN BILLING_REQUIRED
  ELSE IF msg # <<>> THEN msg ELSE NetworkFailed

\* onopen of session k: setConnectionState(CONNECTED), then
\* `await sessionPromiseRef.current` and the greeting
OnOpen(w, k) ==
  LET p == w.refs.sessionPromiseRef
      w1 == [w EXCEPT !.dev.ws[k] = "open", !.hook.connectionState = "CONNECTED"]
      w2 == IF p = 0 THEN w1
            ELSE IF w1.dev.promise[p] = "pending"
            THEN [w1 EXCEPT !.dev.greetWait[k] = p,
                            !.dev.greetLate[k] = (w.dev.discWait = p)]
            ELSE Greet(w1, k, p)
  IN  [Observe(w2, "onopen") EXCEPT !.obs.from = w.hook.connectionState]

OnClose(w, k) ==
  LET w1 == [w EXCEPT !.dev.ws[k] = "closed",
                      !.hook.connectionState = "DISCONNECTED"]
      w2 == stopAudioProcessing(w1)
  IN  [Observe([w2 EXCEPT !.obs.exited = @ \cup {k}], "onclose")
         EXCEPT !.obs.who = k]

OnError(w, k, msg) ==
  LET w1 == [w EXCEPT !.dev.ws[k] = "errored",
                      !.hook.connectionState = "ERROR",
                      !.hook.error = ClassifyError(msg)]
      w2 == stopAudioProcessing(w1)
  IN  [Observe([w2 EXCEPT !.obs.exited = @ \cup {k}, !.obs.remoteMsg = msg],
               "onerror")
         EXCEPT !.obs.who = k]

\* ------------------------------------------------------ recorder, capture

\* recorder.ondataavailable
OnDataAvailable(w, k) ==
  LET w1 == [w EXCEPT !.dev.recEvt[k] = FALSE]
  IN  Observe(IF w.dev.recData[k]
              THEN [w1 EXCEPT !.refs.audioChunksRef = Append(@, k)]
              ELSE w1,
              "dataavailable")

\* processor.onaudioprocess on a frame of root-mean-square level rms
\* (tenths): setVolume(Math.min(rms * 5, 1))
\* and, when the isMuted its closure holds is false and sessionPromiseRef is
\* not null, sessionPromiseRef.current.then(send the frame).catch(() => {})
OnAudioProcess(w, k, rms) ==
  LET p == w.refs.sessionPromiseRef
      w1 == Observe([w EXCEPT !.hook.volume = Min(rms * 5, 10)], "audioprocess")
  IN  IF w.dev.muted[k] \/ p = 0 THEN w1
      ELSE IF w.dev.promise[p] = "pending"
      THEN [w1 EXCEPT !.dev.queued[p] = TRUE, !.obs.fwd = "queued"]
      ELSE IF w.dev.promise[p] = "resolved" /\ w.dev.ws[p] = "open"
      THEN [w1 EXCEPT !.obs.fwd = "sent"]
      ELSE [w1 EXCEPT !.obs.fwd = "failed"]

\* ------------------------------------------------------------ onmessage

\* String.prototype.trim, the only whitespace character being " "
RECURSIVE TrimLeft(_)
TrimLeft(s) ==
  IF s = <<>> THEN s
  ELSE IF Head(s) = " " THEN TrimLeft(Tail(s)) ELSE s

RECURSIVE TrimRight(_)
TrimRight(s) ==
  IF s = <<>> THEN s
  ELSE IF s[Len(s)] = " " THEN TrimRight(SubSeq(s, 1, Len(s) - 1)) ELSE s

Trim(s) == TrimRight(TrimLeft(s))

\* the ref an updater of role `role` reads when it is evaluated
UtteranceRef(w, role) ==
  IF role = "user" THEN w.refs.currentInputRef ELSE w.refs.currentOutputRef

\* ApplyUpdater putting the new entry before the history
ApplyUpdaterPrepends(w, role, said) ==
  [w EXCEPT !.hook.messages =
     <<[role |-> role, text |-> UtteranceRef(w, role), said |-> said]>> \o @]

\* the updater prev => [...prev, {role, text: ref.current}], evaluated now.
\* `said` is the utterance at the time setMessages was called.
ApplyUpdater(w, role, said) ==
  [w EXCEPT !.hook.messages =
     Append(@, [role |-> role, text |-> UtteranceRef(w, role), said |-> said])]

\* setMessages(updater): React evaluates the updater now when nothing is
\* queued and it chooses to (eager), and queues it for the next render
\* otherwise
SetMessages(w, role, eager) ==
  IF eager /\ w.dev.pendingMsgs = <<>>
  THEN ApplyUpdater(w, role, UtteranceRef(w, role))
  ELSE [w EXCEPT !.dev.pendingMsgs =
          Append(@, [role |-> role, said |-> UtteranceRef(w, role)])]

\* the next render evaluates the queued updaters in order
RECURSIVE ApplyQueued(_, _)
ApplyQueued(w, q) ==
  IF q = <<>> THEN w
  ELSE ApplyQueued(ApplyUpdater(w, Head(q).role, Head(q).said), Tail(q))

Render(w) ==
  Observe(ApplyQueued([w EXCEPT !.dev.pendingMsgs = <<>>,
                                !.app.systemInstruction = w.app.sessionInstructions],
                      w.dev.pendingMsgs),
          "render")

\* if (currentInputRef.current.trim()) { setMessages(...); ref = '' }
FinalizeUser(w, eager) ==
  IF Trim(w.refs.currentInputRef) # <<>>
  THEN [SetMessages(w, "user", eager) EXCEPT !.refs.currentInputRef = <<>>]
  ELSE w

\* FinalizeModel without `currentOutputRef.current = ''`
FinalizeModelKeepsRef(w, eager) ==
  IF Trim(w.refs.currentOutputRef) # <<>>
  THEN SetMessages(w, "model", eager)
  ELSE w

\* if (currentOutputRef.current.trim()) { setMessages(...); ref = '' }
FinalizeModel(w, eager) ==
  IF Trim(w.refs.currentOutputRef) # <<>>
  THEN [SetMessages(w, "model", eager) EXCEPT !.refs.currentOutputRef = <<>>]
  ELSE w

\* OnMessageText without setUserTranscript(currentInputRef.current)
OnMessageTextNoCaption(w, m, eager) ==
  LET w1 == IF m.inT # <<>>
            THEN [w EXCEPT !.refs.currentInputRef = @ \o m.inT]
            ELSE w
      w2 == IF m.outT # <<>>
            THEN [w1 EXCEPT !.refs.currentOutputRef = @ \o m.outT]
            ELSE w1
      w3 == [Observe(w2, "turnComplete") EXCEPT
               !.obs.tcUser = w2.refs.currentInputRef,
               !.obs.tcModel = w2.refs.currentOutputRef,
               !.obs.tcBefore = Len(w2.hook.messages) + Len(w2.dev.pendingMsgs)]
  IN  IF m.tc
      THEN FinalizeModel(FinalizeUser(w3, eager), eager)
      ELSE Observe(w2, "onmessage")

\* onmessage from the transcription fields on: the rest of the handler
OnMessageText(w, m, eager) ==
  LET w1 == IF m.inT # <<>>
            THEN [w EXCEPT !.refs.currentInputRef = @ \o m.inT,
                           !.hook.userTranscript = w.refs.currentInputRef \o m.inT]
            ELSE w
      w2 == IF m.outT # <<>>
            THEN [w1 EXCEPT !.refs.currentOutputRef = @ \o m.outT]
            ELSE w1
      w3 == [Observe(w2, "turnComplete") EXCEPT
               !.obs.tcUser = w2.refs.currentInputRef,
               !.obs.tcModel = w2.refs.currentOutputRef,
               !.obs.tcBefore = Len(w2.hook.messages) + Len(w2.dev.pendingMsgs)]
  IN  IF m.tc
      THEN FinalizeModel(FinalizeUser(w3, eager), eager)
      ELSE Observe(w2, "onmessage")

\* the text of message m is handled while a handler of the set `earlier`,
\* suspended in its decode, has not yet handled the text of its message
Overtakes(w, m, earlier) ==
  /\ m.inT # <<>> \/ m.outT # <<>> \/ m.tc
  /\ \E j \in earlier : \/ w.dev.decoding[j].m.inT # <<>>
                        \/ w.dev.decoding[j].m.outT # <<>>

\* onmessage, from its call: with an audio payload and an output context it
\* runs to `await decodeAudioData(...)`, else to its end
OnMessage(w, m, eager) ==
  IF m.audio /\ w.refs.outputAudioContextRef # 0
  THEN Observe([w EXCEPT
         !.hook.isModelSpeaking = TRUE,
         !.refs.nextStartTimeRef = Max(@, w.dev.clock),
         !.dev.decoding = Append(@, [ctx |-> w.refs.outputAudioContextRef, m |-> m])],
         "onmessage")
  ELSE [OnMessageText(w, m, eager) EXCEPT
          !.obs.overtaken = Overtakes(w, m, 1..Len(w.dev.decoding))]

RemoveAt(q, i) == SubSeq(q, 1, i - 1) \o SubSeq(q, i + 1, Len(q))

FreeSrc(w) == CHOOSE i \in SrcIds : w.dev.src[i] = "none"

\* source.start(nextStartTimeRef.current); activeSourcesRef.current.add(source);
\* nextStartTimeRef.current += buffer.duration
StartSource(w, ctx, dur) ==
  LET s == FreeSrc(w)
      t == w.refs.nextStartTimeRef
      live == ctx = w.refs.outputAudioContextRef
  IN  [w EXCEPT !.dev.src[s] = "playing",
                !.refs.activeSourcesRef = @ \cup {s},
                !.refs.nextStartTimeRef = t + dur,
                !.obs.started = TRUE,
                !.obs.past = live /\ t < w.dev.clock,
                !.obs.overlap = live /\ w.obs.started /\ t < w.obs.prevEnd,
                !.obs.decreasing = live /\ w.obs.started /\ t < w.obs.prevStart,
                !.obs.prevStart = t,
                !.obs.prevEnd = t + dur]

\* OnMessageAfterDecode leaving the handler when the decode fails
OnMessageAfterDecodeAborts(w, i, ok, dur, eager) ==
  LET h == w.dev.decoding[i]
      w0 == [w EXCEPT !.dev.decoding = RemoveAt(@, i)]
  IN  IF ok
      THEN [OnMessageText(StartSource(w0, h.ctx, dur), h.m, eager) EXCEPT
              !.obs.decode = "ok"]
      ELSE [Observe(w0, "onmessage") EXCEPT
              !.obs.decode = "failed",
              !.obs.failedTurn = @ \/ h.m.tc]

\* onmessage resumed after `await decodeAudioData(...)`: the i-th suspended
\* handler goes on, with a buffer of duration dur or into catch (e) {}
OnMessageAfterDecode(w, i, ok, dur, eager) ==
  LET h == w.dev.decoding[i]
      w0 == [w EXCEPT !.dev.decoding = RemoveAt(@, i)]
      w1 == IF ok THEN StartSource(w0, h.ctx, dur) ELSE w0
  IN  [OnMessageText(w1, h.m, eager) EXCEPT
         !.obs.overtaken = Overtakes(w, h.m, 1..(i - 1)),
         !.obs.decode = IF ok THEN "ok" ELSE "failed",
         !.obs.failedTurn = @ \/ (~ok /\ h.m.tc)]

\* the source's 'ended' listener
OnEnded(w, s) ==
  LET w1 == [w EXCEPT !.dev.src[s] = "none",
                      !.refs.activeSourcesRef = @ \ {s}]
  IN  Observe(IF w1.refs.activeSourcesRef = {}
              THEN [w1 EXCEPT !.hook.isModelSpeaking = FALSE]
              ELSE w1,
              "ended")

\* ------------------------------------------------------------ actions

\* connect is called by the application only from its idle screen
CallerIdle == hook.connectionState \in {"DISCONNECTED", "ERROR"}

connect(ctors, msgs) ==
  /\ dev.nConn < MaxConn
  /\ \E ctor \in ctors, m \in msgs :
        Commit(ConnectStart(Cur, dev.nConn + 1, ctor, m))

connectResumeIn(oks, msgs) ==
  \E k \in Attempts, ok \in oks, m \in msgs :
    /\ dev.pc[k] = "resumeIn"
    /\ Commit(ConnectAfterResumeIn(Cur, k, ok, m))

connectResumeOut(oks, msgs) ==
  \E k \in Attempts, ok \in oks, m \in msgs :
    /\ dev.pc[k] = "resumeOut"
    /\ Commit(ConnectAfterResumeOut(Cur, k, ok, m))

connectGetUserMedia(outs, msgs) ==
  \E k \in Attempts, out \in outs, m \in msgs :
    /\ dev.pc[k] = "gum"
    /\ Commit(ConnectAfterGetUserMedia(Cur, k, out, m))

disconnect ==
  /\ dev.nConn > 0
  /\ dev.discWait = 0
  /\ Commit(DisconnectStart(Cur))

onopen ==
  \E k \in Attempts :
    /\ dev.ws[k] = "connecting"
    /\ Commit(OnOpen(Cur, k))

\* the promise returned by ai.live.connect resolves once the session is open
sessionResolved ==
  \E k \in Attempts :
    /\ dev.promise[k] = "pending"
    /\ dev.ws[k] = "open"
    /\ Commit(RunWaiters(Observe([Cur EXCEPT !.dev.promise[k] = "resolved"],
                                 "resolved"), k))

\* the two together, as the SDK runs them: its socket's open handler calls
\* onopen and then resolves the promise, in one task
sessionOpened ==
  \E k \in Attempts :
    /\ dev.promise[k] = "pending"
    /\ dev.ws[k] = "connecting"
    /\ Commit(RunWaiters([OnOpen(Cur, k) EXCEPT !.dev.promise[k] = "resolved"], k))

\* or it rejects, and no callback of that session is ever invoked
sessionRejected ==
  \E k \in Attempts :
    /\ dev.promise[k] = "pending"
    /\ dev.ws[k] = "connecting"
    /\ Commit(RunWaiters([Observe([Cur EXCEPT !.dev.promise[k] = "rejected",
                                              !.dev.ws[k] = "closed"],
                                  "rejected") EXCEPT !.obs.who = k], k))

onerror(msgs) ==
  \E k \in Attempts, msg \in msgs :
    /\ dev.ws[k] \in {"connecting", "open"}
    /\ Commit(OnError(Cur, k, msg))

onclose ==
  \E k \in Attempts :
    /\ dev.ws[k] \in {"open", "errored", "closing"}
    /\ Commit(OnClose(Cur, k))

ondataavailable ==
  \E k \in Attempts :
    /\ dev.recEvt[k]
    /\ Commit(OnDataAvailable(Cur, k))

\* the microphone delivers sound to a running recorder
capture ==
  \E k \in Attempts :
    /\ dev.rec[k] = "recording"
    /\ ~dev.recData[k]
    /\ Commit(Observe([Cur EXCEPT !.dev.recData[k] = TRUE, !.obs.captured = TRUE],
                      "capture"))

onaudioprocess(levels) ==
  \E k \in Attempts, rms \in levels :
    /\ dev.proc[k] = "attached"
    /\ Commit(OnAudioProcess(Cur, k, rms))

\* what one more turn-complete may add to the chat
Finalizes(u) == IF Trim(u) # <<>> THEN 1 ELSE 0

\* a server message arrives on an open session; the bounds keep the
\* utterances, the chat and the number of sources finite
onmessage(msgs, eagers) ==
  \E k \in Attempts, m \in msgs, eager \in eagers :
    /\ dev.ws[k] = "open"
    /\ Len(refs.currentInputRef) + Len(m.inT) <= MaxText
    /\ Len(refs.currentOutputRef) + Len(m.outT) <= MaxText
    /\ m.tc => Len(hook.messages) + Len(dev.pendingMsgs)
                 + Finalizes(refs.currentInputRef \o m.inT)
                 + Finalizes(refs.currentOutputRef \o m.outT) <= MaxMsgs
    /\ m.audio => /\ Cardinality({i \in SrcIds : dev.src[i] # "none"})
                      + Len(dev.decoding) < MaxAudio
                  /\ refs.nextStartTimeRef <= MaxClock
    /\ Commit(OnMessage(Cur, m, eager))

\* decodeAudioData settles for a suspended handler
decoded(durs, eagers) ==
  \E i \in 1..Len(dev.decoding), ok \in BOOLEAN, dur \in durs, eager \in eagers :
    Commit(OnMessageAfterDecode(Cur, i, ok, dur, eager))

\* the application calls setIsMuted
setIsMuted ==
  \E v \in BOOLEAN :
    /\ v # hook.isMuted
    /\ Commit(Observe([Cur EXCEPT !.hook.isMuted = v], "setIsMuted"))

onended ==
  \E s \in SrcIds :
    /\ dev.src[s] \in {"playing", "stopped"}
    /\ Commit(OnEnded(Cur, s))

render ==
  /\ \/ dev.pendingMsgs # <<>>
     \/ app.systemInstruction # app.sessionInstructions
  /\ Commit(Render(Cur))

\* the output context's clock advances
tick ==
  /\ refs.outputAudioContextRef # 0
  /\ dev.clock < MaxClock
  /\ Commit(Observe([Cur EXCEPT !.dev.clock = @ + 1], "tick"))

\* ------------------------------------------------------ the application

\* handleStartTest: compose the instruction of this test, show the test
\* screen, and call the connect of the render the handler belongs to
HandleStartTest(w, k, topics, card, ctor, m) ==
  LET w1 == [w EXCEPT !.app.sessionInstructions = Compose(topics, card),
                      !.app.currentPart = "PART1",
                      !.obs.composed[k] = Compose(topics, card)]
  IN  ConnectStart(w1, k, ctor, m)

\* handleFinishTest, from its call to `await disconnect()`
HandleFinishTest(w) ==
  DisconnectStart([w EXCEPT !.app.currentPart = "EVALUATION",
                            !.app.isEvaluating = TRUE,
                            !.app.finish = "disconnect"])

\* handleFinishTest resumed with the blob disconnect returned
HandleFinishAfterDisconnect(w) ==
  Observe([w EXCEPT !.app.finish =
                       IF w.obs.discResult = "blob" THEN "save" ELSE "generate"],
          "finishing")

\* handleFinishTest resumed after `await saveAudioToDB(audioBlob)`, which
\* is outside the try statement
HandleFinishAfterSave(w, ok) ==
  Observe([w EXCEPT !.app.finish = IF ok THEN "generate" ELSE "rejected"],
          "finishing")

\* handleFinishTest resumed after `await ai.models.generateContent(...)`:
\* the score is stored or the failure is logged, and finally runs
HandleFinishAfterGenerate(w, ok) ==
  Observe([w EXCEPT !.app.isEvaluating = FALSE, !.app.finish = "none"],
          "finished")

handleStartTest(cards, ctors, msgs) ==
  /\ app.currentPart = "IDLE"
  /\ dev.nConn < MaxConn
  /\ \E topics \in Topics, card \in cards, ctor \in ctors, m \in msgs :
        Commit(HandleStartTest(Cur, dev.nConn + 1, topics, card, ctor, m))

\* the Finish Session button, or the timer of the test screen
handleFinishTest ==
  /\ app.currentPart = "PART1"
  /\ app.finish \in {"none", "rejected"}
  /\ Commit(HandleFinishTest(Cur))

handleFinishAfterDisconnect ==
  /\ app.finish = "disconnect"
  /\ dev.discWait = 0
  /\ Commit(HandleFinishAfterDisconnect(Cur))

handleFinishAfterSave ==
  /\ app.finish = "save"
  /\ \E ok \in BOOLEAN : Commit(HandleFinishAfterSave(Cur, ok))

handleFinishAfterGenerate ==
  /\ app.finish = "generate"
  /\ \E ok \in BOOLEAN : Commit(HandleFinishAfterGenerate(Cur, ok))

\* the Return to Dashboard button of the evaluation screen
returnToDashboard ==
  /\ app.currentPart = "EVALUATION"
  /\ Commit(Observe([Cur EXCEPT !.app.currentPart = "IDLE"], "return"))

\* -------------------------------------------------------------- useTimer

\* the state updater of the interval callback: the next timeLeft, and
\* whether it calls onCompleteRef.current
Updater(prev) ==
  IF prev <= 0 THEN [value |-> 0, completes |-> FALSE]
  ELSE [value |-> prev - 1, completes |-> prev - 1 = 0]

\* React may call an updater function more than once to compute one state
\* (it calls it twice in StrictMode); every call sees the same prev
Invocations == {1, 2}

\* the interval callback: setTimeLeft(updater), the updater called n times
TimerTick(t, n) ==
  LET u == Updater(t.timeLeft) IN
  [t EXCEPT !.timeLeft = u.value,
            !.ticks = Min(@ + 1, MaxDur + 1),
            !.calls = IF u.completes THEN Min(@ + n, 3) ELSE @,
            !.calledLatest = IF u.completes THEN t.onCompleteRef = t.onComplete ELSE @,
            !.changed = IF u.value = t.timeLeft THEN "none"
                        ELSE IF u.value # t.timeLeft - 1 THEN "jump"
                        ELSE IF t.isActive THEN "tick" ELSE "tickInactive"]

\* the first render of the Timer: useState(durationSeconds), useRef(onComplete)
TimerMount(t, d, active, cb) ==
  [t EXCEPT !.mounted = TRUE,
            !.durationSeconds = d,
            !.isActive = active,
            !.onComplete = cb,
            !.timeLeft = d,
            !.onCompleteRef = cb,
            !.effects = {"onComplete", "durationSeconds", "isActive"},
            !.steady = active,
            !.changed = "none"]

\* a later render of the Timer with the props its parent passes
TimerRender(t, d, active, cb) ==
  [t EXCEPT !.durationSeconds = d,
            !.isActive = active,
            !.onComplete = cb,
            !.effects = @ \cup (IF cb # t.onComplete THEN {"onComplete"} ELSE {})
                          \cup (IF d # t.durationSeconds THEN {"durationSeconds"} ELSE {})
                          \cup (IF active # t.isActive THEN {"isActive"} ELSE {}),
            !.steady = @ /\ d = t.durationSeconds /\ active = t.isActive,
            !.changed = "none"]

\* the effects of the last render run, in the order of the source: the ref
\* takes the callback, timeLeft is set to durationSeconds, the interval of
\* the previous isActive is cleared and one is set up if isActive
TimerEffects(t) ==
  LET reset == "durationSeconds" \in t.effects IN
  [t EXCEPT !.onCompleteRef = IF "onComplete" \in t.effects THEN t.onComplete ELSE @,
            !.timeLeft = IF reset THEN t.durationSeconds ELSE @,
            !.interval = IF "isActive" \in t.effects THEN t.isActive ELSE @,
            !.effects = {},
            !.ticks = IF reset THEN 0 ELSE @,
            !.calls = IF reset THEN 0 ELSE @,
            !.calledLatest = IF reset THEN TRUE ELSE @,
            !.steady = IF reset THEN t.isActive ELSE @,
            !.changed = IF reset THEN "reset" ELSE "none"]

timerMount ==
  /\ ~timer.mounted
  /\ \E d \in 0..MaxDur, active \in BOOLEAN, cb \in Callbacks :
        Commit(Observe([Cur EXCEPT !.timer = TimerMount(timer, d, active, cb)],
                       "timer"))

\* React runs the effects of a render before it renders again
timerRender ==
  /\ timer.mounted
  /\ timer.effects = {}
  /\ \E d \in 0..MaxDur, active \in BOOLEAN, cb \in Callbacks :
        /\ <<d, active, cb>> # <<timer.durationSeconds, timer.isActive, timer.onComplete>>
        /\ Commit(Observe([Cur EXCEPT !.timer = TimerRender(timer, d, active, cb)],
                          "timer"))

timerEffects ==
  /\ timer.effects # {}
  /\ Commit(Observe([Cur EXCEPT !.timer = TimerEffects(timer)], "timer"))

timerTick ==
  /\ timer.interval
  /\ \E n \in Invocations :
        Commit(Observe([Cur EXCEPT !.timer = TimerTick(timer, n)], "timer"))

\* ------------------------------------------------------- specifications

AllCtors == {"ok", "throwIn", "throwOut"}

AllOuts == {"ok", "denied", "recorderThrows", "sdkThrows"}

\* session lifecycle: connect, disconnect, remote open/close/error, recorder
Next ==
  \/ CallerIdle /\ connect(AllCtors, ExcMsgs)
  \/ connectResumeIn(BOOLEAN, ExcMsgs)
  \/ connectResumeOut(BOOLEAN, ExcMsgs)
  \/ connectGetUserMedia(AllOuts, ExcMsgs)
  \/ disconnect
  \/ onopen
  \/ sessionResolved
  \/ sessionRejected
  \/ onerror({<<>>, Sig404})
  \/ onclose
  \/ ondataavailable
  \/ capture
  \/ onaudioprocess({3})

Spec == Init /\ [][Next]_vars

\* one session, connected without failure
ConnectOnce ==
  \/ dev.nConn = 0 /\ connect({"ok"}, {<<"x">>})
  \/ connectResumeIn({TRUE}, {<<"x">>})
  \/ connectResumeOut({TRUE}, {<<"x">>})
  \/ connectGetUserMedia({"ok"}, {<<"x">>})
  \/ onopen
  \/ sessionResolved

AudioMsgs == {[audio |-> TRUE, inT |-> <<>>, outT |-> <<>>, tc |-> FALSE]}

\* playback of one session: audio payloads, decoding, the clock, ended
\* events and the teardowns
NextPlay ==
  \/ ConnectOnce
  \/ onmessage(AudioMsgs, {FALSE})
  \/ decoded({1, 2}, {FALSE})
  \/ onended
  \/ tick
  \/ onaudioprocess({1, 3})
  \/ disconnect
  \/ onerror({<<>>})
  \/ onclose

SpecPlay == Init /\ [][NextPlay]_vars

Frags == {<<>>, <<"a">>, <<" ">>}

TextMsgs ==
  {m \in [audio : {FALSE}, inT : Frags, outT : Frags, tc : BOOLEAN] :
     m.inT # <<>> \/ m.outT # <<>> \/ m.tc}

\* the transcript of one session: fragments, turn-complete, renders
NextText ==
  \/ ConnectOnce
  \/ onmessage(TextMsgs, BOOLEAN)
  \/ render

SpecText == Init /\ [][NextText]_vars

\* remote error messages: strings over four symbols
RECURSIVE StringsUpTo(_, _)
StringsUpTo(alphabet, n) ==
  IF n = 0 THEN {<<>>}
  ELSE LET shorter == StringsUpTo(alphabet, n - 1)
       IN  shorter \cup {Append(x, c) : x \in shorter, c \in alphabet}

ErrMsgs == StringsUpTo({"4", "0", "x", NotFoundSig[1]}, MaxErrLen)

\* the remote error callback of one session
NextErr ==
  \/ ConnectOnce
  \/ onerror(ErrMsgs)
  \/ onclose

SpecErr == Init /\ [][NextErr]_vars

\* a user fragment, and a message that completes a turn of both sides
TurnMsgs ==
  {[audio |-> FALSE, inT |-> <<"a">>, outT |-> <<>>, tc |-> FALSE],
   [audio |-> FALSE, inT |-> <<"a">>, outT |-> <<"a">>, tc |-> TRUE]}

\* sessions one after another or on top of each other: connect is called
\* whatever the connection state is
NextReentrant ==
  \/ connect({"ok"}, {<<"x">>})
  \/ connectResumeIn({TRUE}, {<<"x">>})
  \/ connectResumeOut({TRUE}, {<<"x">>})
  \/ connectGetUserMedia({"ok"}, {<<"x">>})
  \/ onopen
  \/ sessionResolved
  \/ onmessage(TurnMsgs, BOOLEAN)
  \/ render
  \/ disconnect
  \/ onerror({<<"x">>})
  \/ onclose

SpecReentrant == Init /\ [][NextReentrant]_vars

\* sessions one after another, each ended by a remote error: connect is
\* called from Disconnected or Error
NextAgain ==
  \/ CallerIdle /\ connect({"ok"}, {<<"x">>})
  \/ connectResumeIn({TRUE}, {<<"x">>})
  \/ connectResumeOut({TRUE}, {<<"x">>})
  \/ connectGetUserMedia({"ok"}, {<<"x">>})
  \/ onopen
  \/ sessionResolved
  \/ onmessage(TurnMsgs, BOOLEAN)
  \/ render
  \/ onerror({<<"x">>})

SpecAgain == Init /\ [][NextAgain]_vars

\* one session whose captured frames are processed while the application
\* mutes and unmutes
NextMute ==
  \/ ConnectOnce
  \/ setIsMuted
  \/ onaudioprocess({1})
  \/ disconnect
  \/ onclose

SpecMute == Init /\ [][NextMute]_vars

\* the chat of one session and the ways the session ends
NextChat ==
  \/ ConnectOnce
  \/ onmessage(TurnMsgs, BOOLEAN)
  \/ render
  \/ disconnect
  \/ onerror({<<"x">>})
  \/ onclose

SpecChat == Init /\ [][NextChat]_vars

\* attempts to connect that fail while acquiring, one after another
NextAcquire ==
  \/ CallerIdle /\ connect(AllCtors, ExcMsgs)
  \/ connectResumeIn(BOOLEAN, ExcMsgs)
  \/ connectResumeOut(BOOLEAN, ExcMsgs)
  \/ connectGetUserMedia(AllOuts, ExcMsgs)
  \/ onopen
  \/ sessionResolved
  \/ onerror({<<>>})

SpecAcquire == Init /\ [][NextAcquire]_vars

\* an audio payload alone, and a message with all four fields
MixedMsgs ==
  {[audio |-> TRUE, inT |-> <<>>, outT |-> <<>>, tc |-> FALSE],
   [audio |-> TRUE, inT |-> <<"a">>, outT |-> <<"a">>, tc |-> TRUE]}

\* one session receiving messages that carry audio and text
NextMixed ==
  \/ ConnectOnce
  \/ onmessage(MixedMsgs, BOOLEAN)
  \/ decoded({1}, BOOLEAN)
  \/ onended
  \/ render

SpecMixed == Init /\ [][NextMixed]_vars

\* fragments of either side or of both, and a bare turn-complete
CaptionMsgs ==
  {m \in [audio : {FALSE}, inT : {<<>>, <<"a">>}, outT : {<<>>, <<"a">>}, tc : BOOLEAN] :
     (m.inT # <<>> \/ m.outT # <<>>) # m.tc}

\* the live transcript of one session
NextCaption ==
  \/ ConnectOnce
  \/ onmessage(CaptionMsgs, BOOLEAN)
  \/ render

SpecCaption == Init /\ [][NextCaption]_vars

\* the countdown of the test screen
NextTimer ==
  \/ timerMount
  \/ timerRender
  \/ timerEffects
  \/ timerTick

SpecTimer == Init /\ [][NextTimer]_vars

OrderMsgs ==
  {[audio |-> TRUE, inT |-> <<"a">>, outT |-> <<>>, tc |-> FALSE],
   [audio |-> FALSE, inT |-> <<"b">>, outT |-> <<>>, tc |-> TRUE]}

\* one session receiving a fragment with audio and a fragment without
NextOrder ==
  \/ ConnectOnce
  \/ onmessage(OrderMsgs, BOOLEAN)
  \/ decoded({1}, BOOLEAN)
  \/ onended
  \/ render

SpecOrder == Init /\ [][NextOrder]_vars

\* the application starts tests, finishes them and returns to its dashboard
NextStart ==
  \/ handleStartTest(Cards, {"ok"}, {<<"x">>})
  \/ connectResumeIn({TRUE}, {<<"x">>})
  \/ connectResumeOut({TRUE}, {<<"x">>})
  \/ connectGetUserMedia({"ok"}, {<<"x">>})
  \/ onopen
  \/ sessionResolved
  \/ render
  \/ handleFinishTest
  \/ handleFinishAfterDisconnect
  \/ handleFinishAfterGenerate
  \/ returnToDashboard

SpecStart == Init /\ [][NextStart]_vars

\* one test, started and finished by the user, with its recording
NextFinish ==
  \/ dev.nConn = 0 /\ handleStartTest({"a book"}, {"ok"}, {<<"x">>})
  \/ connectResumeIn({TRUE}, {<<"x">>})
  \/ connectResumeOut({TRUE}, {<<"x">>})
  \/ connectGetUserMedia({"ok"}, {<<"x">>})
  \/ sessionOpened
  \/ sessionRejected
  \/ onclose
  \/ capture
  \/ ondataavailable
  \/ handleFinishTest
  \/ handleFinishAfterDisconnect
  \/ handleFinishAfterSave
  \/ handleFinishAfterGenerate

\* sessionOpened is enabled
CanOpen ==
  \E k \in Attempts : dev.promise[k] = "pending" /\ dev.ws[k] = "connecting"

\* weak fairness of sessionOpened, its enabling condition written out: a
\* session that is being opened is opened, unless it is rejected
FairOpened == []<>(~CanOpen) \/ []<><<sessionOpened>>_vars

\* every promise that is awaited settles and every continuation that can
\* run does run; the user and the microphone are free to do nothing
FairFinish ==
  /\ WF_vars(connectResumeIn({TRUE}, {<<"x">>}))
  /\ WF_vars(connectResumeOut({TRUE}, {<<"x">>}))
  /\ WF_vars(connectGetUserMedia({"ok"}, {<<"x">>}))
  /\ FairOpened
  /\ WF_vars(handleFinishAfterDisconnect)
  /\ WF_vars(handleFinishAfterSave)
  /\ WF_vars(handleFinishAfterGenerate)

SpecFinish == Init /\ [][NextFinish]_vars /\ FairFinish

\* ------------------------------------------------------------ properties

\* C1: every buffer started on the live output context starts no earlier
\* than the output clock reads when source.start is called, no earlier than
\* the previous buffer's end (the cursor the previous scheduling left), and
\* no earlier than the previous buffer's start.
C1_StartsInOrderNotInPast ==
  obs.started => ~obs.past /\ ~obs.overlap /\ ~obs.decreasing

\* C2: once no handler is waiting for its decode any more, isModelSpeaking
\* is true exactly when the active playback set is non-empty.
C2_SpeakingIffActive ==
  dev.decoding = <<>> => (hook.isModelSpeaking <=> refs.activeSourcesRef # {})

\* C3: a finished disconnect has returned the recording exactly when sound
\* was captured during the session.
C3_RecordingReturned ==
  obs.discResult # "none" => (obs.discResult = "blob" <=> obs.captured)

Released(k) ==
  /\ dev.track[k] # "live"
  /\ dev.proc[k] # "attached"
  /\ dev.inCtx[k] # "open"
  /\ dev.outCtx[k] # "open"

\* no connect call is suspended at an await
Quiet == \A k \in Attempts : dev.pc[k] \in {"none", "done", "failed"}

\* C4: once an exit path of a session has finished (and no connect call is
\* still under way), the session's microphone track is stopped, its
\* processor detached and both its audio contexts closed.
C4_ReleasedOnExit ==
  Quiet => \A k \in obs.exited : Released(k)

\* C6: right after a failure of connect (an exception caught by connect, or
\* the rejection of the promise ai.live.connect returned) the state is
\* Error, the error is set and the failed call's resources are released.
C6_FailureEndsInError ==
  obs.last \in {"catch", "rejected"} =>
    /\ hook.connectionState = "ERROR"
    /\ hook.error # NULL
    /\ Released(obs.who)

\* C10: from the end of a disconnect until the next call of connect, the
\* connection state is Disconnected.
C10_StaysDisconnected ==
  obs.discDone => hook.connectionState = "DISCONNECTED"

\* C5: after two teardowns in a row (no other step of the hook between
\* them) nothing was released twice, the active set is empty, the volume is
\* zero and the connection state is Disconnected.
C5_TwiceLeavesDisconnected ==
  obs.td = 2 =>
    /\ ~obs.dup
    /\ refs.activeSourcesRef = {}
    /\ hook.volume = 0
    /\ hook.connectionState = "DISCONNECTED"

NonBlank(s) == \E i \in 1..Len(s) : s[i] # " "

\* the roles of the chat entries, finalized and queued, in order
Roles == [i \in 1..(Len(hook.messages) + Len(dev.pendingMsgs)) |->
            IF i <= Len(hook.messages) THEN hook.messages[i].role
            ELSE dev.pendingMsgs[i - Len(hook.messages)].role]

\* what the last turn-complete appended
Appended == SubSeq(Roles, obs.tcBefore + 1, Len(Roles))

TurnCompleteEffect(user, model) ==
  /\ Appended = (IF user THEN <<"user">> ELSE <<>>) \o (IF model THEN <<"model">> ELSE <<>>)
  /\ refs.currentInputRef = IF user THEN <<>> ELSE obs.tcUser
  /\ refs.currentOutputRef = IF model THEN <<>> ELSE obs.tcModel

\* C7: a turn-complete appends a user message iff the user
\* utterance is non-empty and a model message iff the model utterance is
\* non-empty, clears the accumulator of each side it appended, and appends
\* nothing else.
C7_AppendsIffNonEmpty ==
  obs.last = "turnComplete" =>
    TurnCompleteEffect(obs.tcUser # <<>>, obs.tcModel # <<>>)

\* C7 with the test the handler makes: a turn-complete appends a user
\* message iff the user utterance holds a character that is not whitespace,
\* and a model message likewise; it clears the accumulator of each side it
\* appended and leaves the other alone (an utterance of whitespace alone is
\* neither appended nor cleared).
C7_TurnComplete ==
  obs.last = "turnComplete" =>
    TurnCompleteEffect(NonBlank(obs.tcUser), NonBlank(obs.tcModel))

\* a turn-complete with an empty user utterance and a model utterance
\* appended exactly one message, of role model
C7_Witness ==
  /\ obs.last = "turnComplete"
  /\ obs.tcUser = <<>>
  /\ NonBlank(obs.tcModel)
  /\ Appended = <<"model">>

\* C8: the text of every finalized chat message is the utterance its side
\* had accumulated when the turn-complete was handled, and is not empty.
C8_TextIsUtterance ==
  \A i \in 1..Len(hook.messages) :
    /\ hook.messages[i].text = hook.messages[i].said
    /\ hook.messages[i].text # <<>>

Has404(msg) ==
  \E i \in 1..(Len(msg) - 2) : msg[i] = "4" /\ msg[i + 1] = "0" /\ msg[i + 2] = "4"

HasNotFound(msg) == \E i \in 1..Len(msg) : msg[i] = NotFoundSig[1]

\* C9: right after the remote error callback, the error is BILLING_REQUIRED
\* iff the message holds "404" or the not-found phrase; otherwise it is the
\* message itself when that is not empty, and the network-failure text when
\* it is.
C9_ErrorClassified ==
  obs.last = "onerror" =>
    /\ hook.error = BILLING_REQUIRED <=> Has404(obs.remoteMsg) \/ HasNotFound(obs.remoteMsg)
    /\ hook.error # BILLING_REQUIRED =>
         hook.error = IF obs.remoteMsg = <<>> THEN NetworkFailed ELSE obs.remoteMsg

\* the error callback got a message with 404 inside it
C9_Witness ==
  /\ obs.last = "onerror"
  /\ obs.remoteMsg = <<"x", "4", "0", "4">>
  /\ hook.error = BILLING_REQUIRED

\* the attempts whose remote session is being opened or is open
LiveSessions == {k \in Attempts : dev.ws[k] \in {"connecting", "open"}}

\* C11: at most one remote session is live at any time (being opened or
\* open) and at most one microphone track is live, whatever the sequence of
\* connect and disconnect calls is.
C11_OneSessionLive ==
  /\ Cardinality(LiveSessions) <= 1
  /\ Cardinality({k \in Attempts : dev.track[k] = "live"}) <= 1

\* C12: when connect first reaches for a resource (the first audio context)
\* it has set the state to Connecting and cleared the error, the message
\* history, both utterance accumulators and the live user transcript.
C12_ConnectResets ==
  obs.acq.state # "none" =>
    /\ obs.acq.state = "CONNECTING"
    /\ obs.acq.error = NULL
    /\ obs.acq.messages = <<>>
    /\ obs.acq.queued = <<>>
    /\ obs.acq.input = <<>>
    /\ obs.acq.output = <<>>
    /\ obs.acq.transcript = <<>>

\* connect was called with an error shown, a chat history and a pending
\* user utterance
C12_Witness ==
  /\ obs.acq.state = "CONNECTING"
  /\ obs.acq.hadError
  /\ obs.acq.hadMessages
  /\ obs.acq.hadInput

\* the session sessionPromiseRef stands for is open
SessionOpen ==
  /\ refs.sessionPromiseRef # 0
  /\ dev.promise[refs.sessionPromiseRef] = "resolved"
  /\ dev.ws[refs.sessionPromiseRef] = "open"

\* C13: a frame processed while isMuted is true is not forwarded to the
\* remote session (neither sent nor queued for sending), and a frame
\* processed while isMuted is false and the session is open is sent,
\* whenever setIsMuted was last called.
C13_MutedFramesNotSent ==
  obs.last = "audioprocess" =>
    /\ hook.isMuted => obs.fwd \notin {"sent", "queued"}
    /\ ~hook.isMuted /\ SessionOpen => obs.fwd = "sent"

IsPrefix(a, b) == Len(a) <= Len(b) /\ SubSeq(b, 1, Len(a)) = a

\* C14: in every step that is not a call of connect the message history
\* before the step is a prefix of the history after it (no entry is changed
\* or removed, by teardown and disconnect in particular), and a render
\* appends the queued entries in the order their setMessages calls were
\* made.
C14_AppendOnly ==
  [][dev.nConn' = dev.nConn =>
       /\ IsPrefix(hook.messages, hook.messages')
       /\ obs.last' = "render" =>
            /\ Len(hook.messages') = Len(hook.messages) + Len(dev.pendingMsgs)
            /\ \A i \in 1..Len(dev.pendingMsgs) :
                  /\ hook.messages'[Len(hook.messages) + i].role = dev.pendingMsgs[i].role
                  /\ hook.messages'[Len(hook.messages) + i].said = dev.pendingMsgs[i].said]_vars

\* disconnect has torn the session down and the two messages of the turn
\* finalized before are still there, the user's first
C14_Witness ==
  /\ obs.last = "disconnect"
  /\ Len(hook.messages) = 2
  /\ hook.messages[1].role = "user"
  /\ hook.messages[2].role = "model"

\* C15: a connect call that failed (permission denied, an audio context,
\* the recorder or the processor not obtained) never called ai.live.connect:
\* it has no session promise and no remote session; and right after the
\* failure the error is set to a non-empty message.
C15_AbortsBeforeRemote ==
  /\ \A k \in Attempts :
        dev.pc[k] = "failed" => dev.promise[k] = "none" /\ dev.ws[k] = "none"
  /\ obs.last = "catch" => hook.error # NULL /\ hook.error # <<>>

\* getUserMedia rejected with an exception that has no message: no track,
\* no session, both contexts closed, the default message shown
C15_Witness ==
  /\ obs.last = "catch"
  /\ obs.at = "gum"
  /\ obs.who # 0
  /\ dev.track[obs.who] = "none"
  /\ dev.promise[obs.who] = "none"
  /\ dev.inCtx[obs.who] = "closed"
  /\ dev.outCtx[obs.who] = "closed"
  /\ hook.error = InitFailed

\* the handler suspended at position i went on in this step and handled the
\* text fields of its message: fragments appended to the accumulators, the
\* user transcript published, the turn finalized
TextHandled(i) ==
  LET m == dev.decoding[i].m
      inAcc == refs.currentInputRef \o m.inT
      outAcc == refs.currentOutputRef \o m.outT
      added == IF m.tc THEN (IF NonBlank(inAcc) THEN 1 ELSE 0)
                            + (IF NonBlank(outAcc) THEN 1 ELSE 0)
               ELSE 0
  IN  /\ dev.decoding' = RemoveAt(dev.decoding, i)
      /\ refs.currentInputRef' = IF m.tc /\ NonBlank(inAcc) THEN <<>> ELSE inAcc
      /\ refs.currentOutputRef' = IF m.tc /\ NonBlank(outAcc) THEN <<>> ELSE outAcc
      /\ m.inT # <<>> => hook.userTranscript' = inAcc
      /\ Len(hook.messages') + Len(dev.pendingMsgs')
           = Len(hook.messages) + Len(dev.pendingMsgs) + added

DecodeFailedStep ==
  obs.decode' = "failed" =>
    /\ hook.connectionState' = hook.connectionState
    /\ hook.error' = hook.error
    /\ refs.activeSourcesRef' = refs.activeSourcesRef
    /\ dev.src' = dev.src
    /\ \E i \in 1..Len(dev.decoding) : TextHandled(i)

DecodeOkStep ==
  obs.decode' = "ok" =>
    Cardinality(refs.activeSourcesRef') = Cardinality(refs.activeSourcesRef) + 1

\* C16: a step in which a decode fails leaves the connection state, the
\* error, the active set and the sources as they were and still handles the
\* transcription and turn-complete fields of the message; a step in which a
\* decode succeeds, after a failure or not, adds one source to the active
\* set.
C16_DecodeFailureSwallowed == [][DecodeFailedStep /\ DecodeOkStep]_vars

\* a payload was scheduled after the decode of a message with a turn-complete
\* had failed; the session is connected, without error, and the two messages
\* of that turn are in the chat
C16_Witness ==
  /\ obs.decode = "ok"
  /\ obs.failedTurn
  /\ refs.activeSourcesRef # {}
  /\ hook.connectionState = "CONNECTED"
  /\ hook.error = NULL
  /\ Len(hook.messages) + Len(dev.pendingMsgs) = 2

\* C17: right after the open callback of a session the state is Connected
\* and it was Connecting before; no session is sent more than one greeting,
\* and a session that is open with its promise resolved has been sent one.
C17_OpenGreetsOnce ==
  /\ obs.last = "onopen" =>
        hook.connectionState = "CONNECTED" /\ obs.from = "CONNECTING"
  /\ \A k \in Attempts :
        /\ dev.greeted[k] <= 1
        /\ dev.ws[k] = "open" /\ dev.promise[k] = "resolved" => dev.greeted[k] = 1

\* a handler handled the text fields of its message in this step
TextStep ==
  /\ obs.last' \in {"onmessage", "turnComplete"}
  /\ Len(dev.decoding') <= Len(dev.decoding)

\* the utterances accumulated in this step, before a turn-complete of the
\* same message cleared them
InputAccumulated ==
  IF obs.last' = "turnComplete" THEN obs.tcUser' ELSE refs.currentInputRef'

OutputAccumulated ==
  IF obs.last' = "turnComplete" THEN obs.tcModel' ELSE refs.currentOutputRef'

C19_FieldsIndependent ==
  /\ obs.last = "turnComplete" /\ obs.decode = "ok" =>
        /\ refs.activeSourcesRef # {}
        /\ Includes(obs.tcUser, <<"a">>)
        /\ hook.userTranscript = obs.tcUser
        /\ Includes(obs.tcModel, <<"a">>)
        /\ Appended = <<"user", "model">>
  /\ \A i \in 1..Len(hook.messages) : Includes(hook.messages[i].text, <<"a">>)

\* C20: the handling of an inbound message is not suspended: while a
\* message handler has not finished, no other inbound message is handled,
\* no buffer-completion event and no teardown runs; a step of one of these
\* kinds is the continuation of a suspended handler.
C20_MessageRunsToCompletion ==
  [][dev.decoding # <<>>
       /\ obs.last' \in {"onmessage", "turnComplete", "ended"} \cup TeardownOps
       => Len(dev.decoding') < Len(dev.decoding)]_vars

\* C21: no frame processed before the session promise resolved is
\* delivered to the remote session, at the time it was captured or later:
\* no step sends the frames that were queued while the promise was pending.
C21_NoForwardBeforeOpen == obs.fwd # "flushed"

\* C22: every remote session is opened with the instruction that was
\* composed by the handleStartTest call that started it.
C22_SessionUsesComposedInstruction ==
  \A k \in Attempts : dev.ws[k] # "none" => dev.instr[k] = obs.composed[k]

\* this step is onclose or onerror of a session older than the latest connect
StaleCallback ==
  /\ obs'.last \in {"onclose", "onerror"}
  /\ obs'.who # 0
  /\ obs'.who < dev.nConn

\* the connection state and what the latest connect holds are left alone
NewSessionUntouched ==
  /\ hook'.connectionState = hook.connectionState
  /\ dev'.track[dev.nConn] = dev.track[dev.nConn]
  /\ dev'.proc[dev.nConn] = dev.proc[dev.nConn]
  /\ dev'.inCtx[dev.nConn] = dev.inCtx[dev.nConn]
  /\ dev'.outCtx[dev.nConn] = dev.outCtx[dev.nConn]
  /\ dev'.src = dev.src

\* C23: a close or error callback of a previous session, delivered after a
\* new connect has started, changes neither the connection state nor the
\* microphone, processor, audio contexts and playback set of the new session.
C23_StaleCallbackHarmless == [][StaleCallback => NewSessionUntouched]_vars

\* teardown has run and connect has not been called since: connect creates
\* the output context in its first step, only teardown drops it
TornDown == dev.nConn > 0 /\ refs.outputAudioContextRef = 0

\* C24: from a teardown to the next connect the active playback set is
\* empty and the playback cursor is zero.
C24_PlaybackStaysReset ==
  TornDown => refs.activeSourcesRef = {} /\ refs.nextStartTimeRef = 0

\* this step is a call of connect or disconnect by the user of the hook
UserCall == obs'.last \in {"connect", "catch", "disconnect", "disconnectCall"}

\* the state is Error because a session reported an error
RemoteError ==
  /\ hook.connectionState = "ERROR"
  /\ \E k \in Attempts : dev.ws[k] \in {"errored", "closed"} /\ k \in obs.exited
  /\ obs.last \in {"onerror", "onclose"}

\* C25: once onerror has set the state to Error, it stays Error until
\* connect or disconnect is called; the onclose that follows keeps it.
C25_ErrorIsSticky ==
  [][(RemoteError /\ ~UserCall) => hook'.connectionState = "ERROR"]_vars

\* C26: in state Error the error shown is a non-empty string, and in
\* states Connecting and Connected no error is shown.
C26_ErrorMatchesState ==
  /\ hook.connectionState = "ERROR" => hook.error # NULL /\ hook.error # <<>>
  /\ hook.connectionState \in {"CONNECTING", "CONNECTED"} => hook.error = NULL

\* C27: the text and the turn-complete of a message are never handled while
\* an earlier message, suspended in the decode of its audio payload, has a
\* fragment that is still to be accumulated.
C27_FragmentsInDeliveryOrder == ~obs.overtaken

\* C28: while durationSeconds is fixed, timeLeft is between 0 and
\* durationSeconds; it changes only by one decrement per tick and only
\* while isActive is true; and once it is 0 it stays 0.
C28_CountdownSteps ==
  (timer.mounted /\ "durationSeconds" \notin timer.effects) =>
     /\ 0 <= timer.timeLeft
     /\ timer.timeLeft <= timer.durationSeconds
     /\ timer.changed \in {"none", "reset", "tick"}

\* C29: with durationSeconds fixed and isActive true since timeLeft was set,
\* timeLeft is durationSeconds minus the ticks so far (0 from the tick
\* number durationSeconds on); onComplete has not been called while timeLeft
\* is positive, and has been called exactly once, with the latest callback,
\* when a positive countdown is at 0; with durationSeconds 0 it is never called.
C29_CompletesExactlyOnce ==
  (timer.mounted /\ timer.steady) =>
     /\ timer.timeLeft = timer.durationSeconds - Min(timer.ticks, timer.durationSeconds)
     /\ timer.timeLeft > 0 => timer.calls = 0
     /\ timer.durationSeconds = 0 => timer.calls = 0
     /\ (timer.timeLeft = 0 /\ timer.durationSeconds > 0) =>
           timer.calls = 1 /\ timer.calledLatest

\* C30: whenever handleFinishTest has set isEvaluating, isEvaluating is
\* eventually false again.
C30_EvaluationEnds == app.isEvaluating ~> ~app.isEvaluating

====
